---- MODULE Spec2Model ----
(***************************************************************************)
(* Model of assets/js/main.js (Dosmac Electrical): the contact form         *)
(* controller, the navbar scroll and mobile menu controllers and the two    *)
(* reveal-once observers.  The browser is modelled as an event loop: every  *)
(* action is one handler run to completion.                                 *)
(*                                                                          *)
(* A string is a sequence of tokens; a token is a word made of URI          *)
(* unreserved characters or one single other character (" ", ":", ...).    *)
(***************************************************************************)
EXTENDS Integers, Sequences, FiniteSets, TLC

\* ------------------------------------------------------------------ bounds
\* accepted submissions per page load
MaxSubmits == 2
\* input events per page load
MaxEdits == 6
\* largest step by which the clock advances between two form events (ms)
Quantum == 1500
\* the same while the scroll debounce timer and the fade timers are pending
NavQuantum == 5
FadeQuantum == 40
\* entries an observer holds queued for one callback
MaxQueue == 3
MaxTick == 80
MaxBurst == 3

\* ------------------------------------------------------- program constants
NAVBAR_SCROLL_THRESHOLD == 80
DEBOUNCE_DELAY == 10
WA_REDIRECT_DELAY == 1500
REENABLE_DELAY == 3000
FADE_DELAY == 80
COUNTER_DURATION_MS == 2000

WHATSAPP_NUMBER == "263717675763"

\* ------------------------------------------------------------------ strings
SP == " "
NL == "\n"

IsSpace(tok) == tok \in {SP, NL}

RECURSIVE TrimStart(_)
TrimStart(s) ==
    IF s = <<>> THEN <<>>
    ELSE IF IsSpace(Head(s)) THEN TrimStart(Tail(s)) ELSE s

RECURSIVE TrimEnd(_)
TrimEnd(s) ==
    IF s = <<>> THEN <<>>
    ELSE IF IsSpace(s[Len(s)]) THEN TrimEnd(SubSeq(s, 1, Len(s) - 1)) ELSE s

\* String.prototype.trim
Trim(s) == TrimEnd(TrimStart(s))

\* Array.prototype.filter(Boolean) on an array of strings: drops the empty ones
RECURSIVE FilterBoolean(_)
FilterBoolean(lines) ==
    IF lines = <<>> THEN <<>>
    ELSE IF Head(lines) = <<>> THEN FilterBoolean(Tail(lines))
         ELSE <<Head(lines)>> \o FilterBoolean(Tail(lines))

\* Array.prototype.join('\n')
RECURSIVE JoinNL(_)
JoinNL(lines) ==
    IF lines = <<>> THEN <<>>
    ELSE IF Len(lines) = 1 THEN Head(lines)
         ELSE Head(lines) \o <<NL>> \o JoinNL(Tail(lines))

\* encodeURIComponent, token by token: words of unreserved characters and
\* ! ' ( ) * are kept, every other character is percent-encoded
EncodeToken(tok) ==
    CASE tok = " "  -> "%20"
      [] tok = "\n" -> "%0A"
      [] tok = ":"  -> "%3A"
      [] tok = "/"  -> "%2F"
      [] tok = "{"  -> "%7B"
      [] tok = "}"  -> "%7D"
      [] tok = "["  -> "%5B"
      [] tok = "]"  -> "%5D"
      [] OTHER      -> tok

encodeURIComponent(s) == [i \in 1..Len(s) |-> EncodeToken(s[i])]

\* ------------------------------------------------------------------ the DOM
RequiredFields == <<"clientName", "clientPhone", "serviceType", "clientArea">>
Required == {RequiredFields[i] : i \in 1..Len(RequiredFields)}
Fields == Required \cup {"clientMessage"}
ErrorSlots == {"nameError", "phoneError", "serviceError", "areaError"}

FormDom == {"contactForm", "formFeedback", "submitBtn"} \cup Fields \cup ErrorSlots

\* the error span of a required field
ErrorIdOf(fieldId) ==
    CASE fieldId = "clientName"  -> "nameError"
      [] fieldId = "clientPhone" -> "phoneError"
      [] fieldId = "serviceType" -> "serviceError"
      [] fieldId = "clientArea"  -> "areaError"

ErrorMessageOf(fieldId) ==
    CASE fieldId = "clientName"  -> "Please enter your name."
      [] fieldId = "clientPhone" -> "Please enter your phone number."
      [] fieldId = "serviceType" -> "Please select a service type."
      [] fieldId = "clientArea"  -> "Please enter your area or suburb."

INVALID_BORDER == "#FF5555"
SENDING_LABEL == "Sending..."
SEND_LABEL == "<i class=\"fa-solid fa-paper-plane\"></i> Send My Enquiry - We'll Reply Within 1 Hour"
MARKUP_LABEL == "<markup>"
WA_NOTICE == "Opening WhatsApp with your details pre-filled. We'll reply within the hour!"
SENT_NOTICE == "Message sent! We'll be in touch within the hour. For urgent jobs call us directly."

\* the navigation elements, and what navbar.contains() may hold of them
NavDom == {"navbar", "navToggle", "mobileMenu"}

\* the reveal targets: .stat-item__number[data-target] and the fade elements
Counters == {"counter1", "counter2"}
Fades == {"fade1", "fade2"}
ObserverOf(el) == IF el \in Counters THEN "counters" ELSE "fades"

\* the portfolio: .portfolio-tab elements with their data-filter, and
\* .portfolio-item elements with their data-category
TabIds == {"tabAll", "tabSolar", "tabWiring"}
ItemIds == {"item1", "item2", "item3"}
DataFilter(tab) ==
    CASE tab = "tabAll" -> "all" [] tab = "tabSolar" -> "solar" [] tab = "tabWiring" -> "wiring"
DataCategory(item) ==
    CASE item = "item1" -> "solar" [] item = "item2" -> "wiring" [] item = "item3" -> "lighting"

FullDom == FormDom \cup NavDom \cup Counters \cup Fades \cup TabIds \cup ItemIds

\* window.scrollY values the page is scrolled to
Offsets == {0, 79, 80, 81, 500}

\* `let timer;` of debounce(): no timer set yet
NoTimer == -1

\* `let startTime = null;` of countUp(), and no animation frame delivered yet
NoStart == -1
NoFrame == -1

VARIABLES
    dom,        \* ids of the elements the document holds (fixed per page load)
    inNavbar,   \* the elements navbar.contains() holds of (fixed per page load)
    endpoint,   \* CONFIG.FORM_ACTION_URL is a non-empty string
    scrollY,    \* window.scrollY
    scrollEvent,\* a scroll event is queued for dispatch
    scrollTimer,\* ms left of the debounce timer, NoTimer if none is pending
    navScrolled,\* #navbar carries navbar--scrolled
    pendingTimers, \* timeouts of the debounced listener the browser holds
    burst,      \* scroll events dispatched since updateNavbar() last ran
    menu,       \* [menuOpen, toggleOpen, ariaExpanded, ariaHidden]
    lastNav,    \* the menu event handled last, and whether the menu was open
    observed,   \* targets under observation
    prevInter,  \* per target, what the last rendering update saw
    queue,      \* per observer, the entries queued for its callback
    started,    \* per counter, the countUp() calls so far
    scheduled,  \* per fade element, the is-visible timers set so far
    fadeIn,     \* elements carrying fade-in
    visible,    \* elements carrying is-visible
    fadeTimers, \* pending is-visible timers, in creation order
    value,      \* value of each form field
    errText,    \* textContent of each error span
    border,     \* style.borderColor of each required field
    feedback,   \* #formFeedback: [text, cls]
    btn,        \* #submitBtn: [disabled, label]
    inflight,   \* submit handlers suspended at `await fetch`
    timers,     \* pending setTimeout callbacks, in creation order
    accepted,   \* submissions that passed validation so far
    edits,      \* input events so far
    log,        \* effects of the handler that ran last, in program order
    dataTarget, \* per counter, parseInt of its data-target (fixed per page load)
    anims,      \* the countUp() closures, in call order: [el, startTime, first, done]
    raf,        \* the animation frame callbacks requested, in request order
    shown,      \* per counter, its textContent
    frameTime,  \* timestamp of the last animation frame, NoFrame before the first
    tabs,       \* the .portfolio-tab elements: per tab [active, ariaSelected]
    hidden,     \* the .portfolio-item elements carrying hidden
    lastTab     \* the tab clicked last

pageVars == <<dom, inNavbar, endpoint>>
formVars == <<value, errText, border, feedback, btn, inflight, timers, accepted,
              edits, log>>
scrollVars == <<scrollY, scrollEvent, scrollTimer, navScrolled, pendingTimers, burst>>
menuVars == <<menu, lastNav>>
navVars == <<scrollVars, menuVars>>
revealVars == <<observed, prevInter, queue, started, scheduled, fadeIn, visible,
                fadeTimers>>
countVars == <<dataTarget, anims, raf, shown, frameTime>>
filterVars == <<tabs, hidden, lastTab>>
vars == <<pageVars, formVars, navVars, revealVars, countVars, filterVars>>

Has(id) == id \in dom

E(op) == [op |-> op, arg |-> <<>>]

\* ------------------------------------------------ 9. handleContactForm()

\* validateField(fieldId, errorId, message) on the error/border state st;
\* returns the verdict with the state it leaves
validateField(st, fieldId, errorId, message) ==
    IF ~Has(fieldId) \/ ~Has(errorId)
    THEN [ok |-> TRUE, errText |-> st.errText, border |-> st.border]
    ELSE LET isEmpty == Trim(value[fieldId]) = <<>> \/ value[fieldId] = <<>>
         IN  [ok      |-> ~isEmpty,
              errText |-> [st.errText EXCEPT ![errorId] = IF isEmpty THEN message ELSE ""],
              border  |-> [st.border EXCEPT ![fieldId] = IF isEmpty THEN INVALID_BORDER ELSE ""]]

\* validateForm() as `return validateField(..) && validateField(..) && ...` would
\* run it: the fields after the first empty one are not looked at
validateFormShortCircuit ==
    LET st0       == [errText |-> errText, border |-> border]
        skip(r)   == [ok |-> FALSE, errText |-> r.errText, border |-> r.border]
        nameOk    == validateField(st0, "clientName", "nameError", ErrorMessageOf("clientName"))
        phoneOk   == IF nameOk.ok
                     THEN validateField(nameOk, "clientPhone", "phoneError", ErrorMessageOf("clientPhone"))
                     ELSE skip(nameOk)
        serviceOk == IF phoneOk.ok
                     THEN validateField(phoneOk, "serviceType", "serviceError", ErrorMessageOf("serviceType"))
                     ELSE skip(phoneOk)
        areaOk    == IF serviceOk.ok
                     THEN validateField(serviceOk, "clientArea", "areaError", ErrorMessageOf("clientArea"))
                     ELSE skip(serviceOk)
    IN  [ok |-> areaOk.ok, errText |-> areaOk.errText, border |-> areaOk.border]

\* validateForm(): all four fields are validated, then the verdicts are and-ed
validateForm ==
    LET st0       == [errText |-> errText, border |-> border]
        nameOk    == validateField(st0, "clientName", "nameError", ErrorMessageOf("clientName"))
        phoneOk   == validateField(nameOk, "clientPhone", "phoneError", ErrorMessageOf("clientPhone"))
        serviceOk == validateField(phoneOk, "serviceType", "serviceError", ErrorMessageOf("serviceType"))
        areaOk    == validateField(serviceOk, "clientArea", "areaError", ErrorMessageOf("clientArea"))
    IN  [ok      |-> nameOk.ok /\ phoneOk.ok /\ serviceOk.ok /\ areaOk.ok,
         errText |-> areaOk.errText,
         border  |-> areaOk.border]

\* showFeedback(message, type)
showFeedback(fb, message, type) ==
    IF ~Has("formFeedback") THEN fb ELSE [text |-> message, cls |-> type]

\* the own keys of the serviceLabels object literal
ServiceCodes == {"solar", "wiring", "industrial", "lighting", "ac", "db-board", "other"}

OwnServiceLabel(code) ==
    CASE code = "solar"      -> <<"Solar", SP, "Installation">>
      [] code = "wiring"     -> <<"House", SP, "Wiring", SP, "/", SP, "Rewire">>
      [] code = "industrial" -> <<"Industrial", SP, "/", SP, "Commercial">>
      [] code = "lighting"   -> <<"Lighting", SP, "Installation">>
      [] code = "ac"         -> <<"AC", SP, "Installation", SP, "/", SP, "Repair">>
      [] code = "db-board"   -> <<"DB", SP, "Board", SP, "Upgrade">>
      [] code = "other"      -> <<"Other", SP, "/", SP, "Not", SP, "Sure">>

\* serviceLabels is a plain object literal: a key it does not own is looked up
\* on Object.prototype, whose members are truthy functions
ObjectPrototypeKeys == {"constructor", "toString", "valueOf", "hasOwnProperty",
                        "isPrototypeOf", "propertyIsEnumerable", "toLocaleString"}

\* String(Object.prototype[key]) as the template literal renders it
PrototypeMemberText(key) ==
    <<"function", SP, IF key = "constructor" THEN "Object" ELSE key, "(", ")", SP,
      "{", SP, "[", "native", SP, "code", "]", SP, "}">>

\* serviceLabels[service] || service   (service is one token or empty)
ServiceLabel(service) ==
    IF Len(service) = 1 /\ service[1] \in ServiceCodes THEN OwnServiceLabel(service[1])
    ELSE IF Len(service) = 1 /\ service[1] \in ObjectPrototypeKeys
         THEN PrototypeMemberText(service[1])
         ELSE service

\* document.getElementById(id)?.value ... || ''
ValueOrEmpty(id) == IF Has(id) THEN value[id] ELSE <<>>

GREETING == <<"Hi", SP, "Dosmac", "!", SP, "I", "'", "d", SP, "like", SP, "a", SP,
              "quote", SP, "for", ":">>

\* the waText of fallbackToWhatsApp(), from the fields as they are now
WaText ==
    LET name    == Trim(ValueOrEmpty("clientName"))
        phone   == Trim(ValueOrEmpty("clientPhone"))
        service == ValueOrEmpty("serviceType")
        area    == Trim(ValueOrEmpty("clientArea"))
        message == Trim(ValueOrEmpty("clientMessage"))
        serviceLabel == ServiceLabel(service)
    IN  JoinNL(FilterBoolean(<<
            GREETING,
            <<"Service", ":", SP>> \o serviceLabel,
            <<"Area", ":", SP>> \o area,
            <<"Name", ":", SP>> \o name,
            <<"Phone", ":", SP>> \o phone,
            IF message # <<>> THEN <<"Details", ":", SP>> \o message ELSE <<>>
        >>))

WA_PREFIX == <<"https", ":", "/", "/", "wa.me", "/", WHATSAPP_NUMBER, "?", "text", "=">>

WaUrl == WA_PREFIX \o encodeURIComponent(WaText)

Timer(kind, delay, url) == [kind |-> kind, delay |-> delay, rem |-> delay, url |-> url]

\* fallbackToWhatsApp() with the redirect delayed past the re-enable timer
fallbackToWhatsAppLate(st) ==
    [feedback |-> showFeedback(st.feedback, WA_NOTICE, "success"),
     timers   |-> Append(st.timers, Timer("wa", REENABLE_DELAY + WA_REDIRECT_DELAY, WaUrl)),
     log      |-> st.log \o <<E("showFeedback"), E("setTimeout:wa")>>]

\* fallbackToWhatsApp() reporting the failed call as an error notice
fallbackToWhatsAppError(st) ==
    [feedback |-> showFeedback(st.feedback, WA_NOTICE, "error"),
     timers   |-> Append(st.timers, Timer("wa", WA_REDIRECT_DELAY, WaUrl)),
     log      |-> st.log \o <<E("showFeedback"), E("setTimeout:wa")>>]

\* fallbackToWhatsApp(): the notice, then the redirect timer
fallbackToWhatsApp(st) ==
    [feedback |-> showFeedback(st.feedback, WA_NOTICE, "success"),
     timers   |-> Append(st.timers, Timer("wa", WA_REDIRECT_DELAY, WaUrl)),
     log      |-> st.log \o <<E("showFeedback"), E("setTimeout:wa")>>]

\* the submit handler without its `submitBtn.disabled = true`
DisableSubmitLabelOnly(b) ==
    IF Has("submitBtn") THEN [disabled |-> b.disabled, label |-> SENDING_LABEL] ELSE b

\* submitBtn.disabled = true; submitBtn.textContent = 'Sending...'
DisableSubmit(b) ==
    IF Has("submitBtn") THEN [disabled |-> TRUE, label |-> SENDING_LABEL] ELSE b

\* the re-enable that restores the label and forgets `disabled = false`
EnableSubmitLabelOnly(b) ==
    IF Has("submitBtn") THEN [disabled |-> b.disabled, label |-> SEND_LABEL] ELSE b

\* submitBtn.disabled = false; submitBtn.innerHTML = ...
EnableSubmit(b) ==
    IF Has("submitBtn") THEN [disabled |-> FALSE, label |-> SEND_LABEL] ELSE b

\* form.reset(): every control of the form goes back to its default value
DefaultValue(fieldId) == <<>>

\* a reset that reaches the required fields only
ResetFormRequired(v) == [f \in Fields |-> IF Has(f) /\ f \in Required THEN DefaultValue(f) ELSE v[f]]

ResetForm(v) == [f \in Fields |-> IF Has(f) THEN DefaultValue(f) ELSE v[f]]

\* ------------------------------------------------------- inputs of the form
NameValues    == {<<>>, <<"John">>, <<SP, "John", SP>>}
PhoneValues   == {<<>>, <<SP>>, <<"0771234567">>}
ServiceValues == {<<>>, <<"solar">>, <<"generator">>, <<"constructor">>}
AreaValues    == {<<>>, <<"Harare">>}
MessageValues == {<<>>, <<SP>>, <<"Roof", SP, "panels">>}

ValuesOf(fieldId) ==
    CASE fieldId = "clientName"    -> NameValues
      [] fieldId = "clientPhone"   -> PhoneValues
      [] fieldId = "serviceType"   -> ServiceValues
      [] fieldId = "clientArea"    -> AreaValues
      [] fieldId = "clientMessage" -> MessageValues


InitFormFields ==
    /\ value = [f \in Fields |-> DefaultValue(f)]
    /\ errText = [e \in ErrorSlots |-> ""]
    /\ border = [f \in Required |-> ""]
    /\ feedback = [text |-> "", cls |-> ""]
    /\ btn = [disabled |-> FALSE, label |-> MARKUP_LABEL]
    /\ inflight = 0
    /\ timers = <<>>
    /\ accepted = 0
    /\ edits = 0
    /\ log = <<>>

InitForm == endpoint \in BOOLEAN /\ InitFormFields

\* a submit event reaches the form only while its submit button is enabled
SubmitPossible == Has("contactForm") /\ (Has("submitBtn") => ~btn.disabled)

\* submit handler, validation fails: `if (!validateForm()) return;`
SubmitRejected ==
    /\ SubmitPossible
    /\ ~validateForm.ok
    /\ errText' = validateForm.errText
    /\ border' = validateForm.border
    /\ log' = <<E("submit"), E("validateForm:false")>>
    /\ UNCHANGED <<pageVars, countVars, filterVars, navVars, revealVars,value, feedback, btn, inflight, timers, accepted, edits>>

\* submit handler, no endpoint configured: the WhatsApp fallback and the
\* re-enable timer
SubmitFallback ==
    /\ SubmitPossible
    /\ validateForm.ok
    /\ ~endpoint
    /\ accepted < MaxSubmits
    /\ LET b  == DisableSubmit(btn)
           l0 == <<E("submit"), E("validateForm:true")>>
                    \o (IF b # btn \/ Has("submitBtn") THEN <<E("disable")>> ELSE <<>>)
           fb == fallbackToWhatsApp([feedback |-> feedback, timers |-> timers, log |-> l0])
       IN  /\ btn' = b
           /\ feedback' = fb.feedback
           /\ timers' = Append(fb.timers, Timer("reenable", REENABLE_DELAY, <<>>))
           /\ log' = fb.log \o <<E("setTimeout:reenable")>>
    /\ errText' = validateForm.errText
    /\ border' = validateForm.border
    /\ accepted' = accepted + 1
    /\ UNCHANGED <<pageVars, countVars, filterVars, navVars, revealVars,value, inflight, edits>>

\* submit handler, endpoint configured: runs up to `await fetch(...)`
SubmitRemote ==
    /\ SubmitPossible
    /\ validateForm.ok
    /\ endpoint
    /\ accepted < MaxSubmits
    /\ btn' = DisableSubmit(btn)
    /\ inflight' = inflight + 1
    /\ log' = <<E("submit"), E("validateForm:true")>>
                \o (IF Has("submitBtn") THEN <<E("disable")>> ELSE <<>>)
                \o <<E("fetch")>>
    /\ errText' = validateForm.errText
    /\ border' = validateForm.border
    /\ accepted' = accepted + 1
    /\ UNCHANGED <<pageVars, countVars, filterVars, navVars, revealVars,value, feedback, timers, edits>>

Submit == SubmitRejected \/ SubmitFallback \/ SubmitRemote

\* the `finally` block
Finally(l) == l \o (IF Has("submitBtn") THEN <<E("enable")>> ELSE <<>>)

\* the fetch settles with response.ok: reset, notice, finally
FetchOk ==
    /\ inflight > 0
    /\ inflight' = inflight - 1
    /\ value' = ResetForm(value)
    /\ feedback' = showFeedback(feedback, SENT_NOTICE, "success")
    /\ btn' = EnableSubmit(btn)
    /\ log' = Finally(<<E("fetch:ok"), E("reset"), E("showFeedback")>>)
    /\ UNCHANGED <<pageVars, countVars, filterVars, navVars, revealVars,errText, border, timers, accepted, edits>>

\* the fetch settles with a failure status (else branch) or rejects (catch):
\* fallback, finally
FetchFailed(how) ==
    /\ inflight > 0
    /\ inflight' = inflight - 1
    /\ LET fb == fallbackToWhatsApp([feedback |-> feedback, timers |-> timers,
                                     log |-> <<E(how)>>])
       IN  /\ feedback' = fb.feedback
           /\ timers' = fb.timers
           /\ log' = Finally(fb.log)
    /\ btn' = EnableSubmit(btn)
    /\ UNCHANGED <<pageVars, countVars, filterVars, navVars, revealVars,value, errText, border, accepted, edits>>

FetchSettle == FetchOk \/ FetchFailed("fetch:status") \/ FetchFailed("fetch:throw")

\* ---------------------------------------------------------------- timers
Min(a, b) == IF a < b THEN a ELSE b

RECURSIVE MinRem(_)
MinRem(ts) ==
    IF Len(ts) = 1 THEN ts[1].rem ELSE Min(ts[1].rem, MinRem(Tail(ts)))

Remove(ts, i) == SubSeq(ts, 1, i - 1) \o SubSeq(ts, i + 1, Len(ts))

\* a due timer runs unless one set before it, with a delay no longer than its
\* own, is due as well
MayFire(ts, i) ==
    /\ i \in 1..Len(ts)
    /\ ts[i].rem = 0
    /\ \A j \in 1..(i - 1) : ~(ts[j].rem = 0 /\ ts[j].delay <= ts[i].delay)

\* time passes: by the Quantum, or up to the next timer that comes due
Advance ==
    /\ timers # <<>>
    /\ MinRem(timers) > 0
    /\ LET d == Min(Quantum, MinRem(timers))
       IN  timers' = [i \in 1..Len(timers) |-> [timers[i] EXCEPT !.rem = @ - d]]
    /\ log' = <<E("time")>>
    /\ UNCHANGED <<pageVars, countVars, filterVars, navVars, revealVars,value, errText, border, feedback, btn, inflight, accepted, edits>>

\* setTimeout(() => window.open(waUrl, '_blank'), 1500): the window opens, or
\* the browser blocks the popup
OpenWhatsApp ==
    \E i \in 1..Len(timers) : \E opened \in BOOLEAN :
        /\ MayFire(timers, i)
        /\ timers[i].kind = "wa"
        /\ timers' = Remove(timers, i)
        /\ log' = <<E("timer:wa"),
                    [op |-> IF opened THEN "open" ELSE "open:blocked", arg |-> timers[i].url]>>
        /\ UNCHANGED <<pageVars, countVars, filterVars, navVars, revealVars,value, errText, border, feedback, btn, inflight, accepted, edits>>

\* the re-enable timer of the no-endpoint branch
ReenableSubmit ==
    \E i \in 1..Len(timers) :
        /\ MayFire(timers, i)
        /\ timers[i].kind = "reenable"
        /\ timers' = Remove(timers, i)
        /\ btn' = EnableSubmit(btn)
        /\ log' = Finally(<<E("timer:reenable")>>)
        /\ UNCHANGED <<pageVars, countVars, filterVars, navVars, revealVars,value, errText, border, feedback, inflight, accepted, edits>>

\* input listener of a required field (the message field has none)
\* the listeners exist only if the form does (`if (!form) return;`) and only
\* on the four required fields
Listening(f) == Has("contactForm") /\ f \in Required

\* an input listener that clears every field's marker and message
InputClearsAll ==
    \E f \in Fields : \E v \in ValuesOf(f) :
        /\ Has(f)
        /\ v # value[f]
        /\ edits < MaxEdits
        /\ edits' = edits + 1
        /\ value' = [value EXCEPT ![f] = v]
        /\ border' = IF Listening(f) THEN [g \in Required |-> ""] ELSE border
        /\ errText' = IF Listening(f) THEN [e \in ErrorSlots |-> ""] ELSE errText
        /\ log' = <<E("input")>>
        /\ UNCHANGED <<pageVars, countVars, filterVars, navVars, revealVars,
                       feedback, btn, inflight, timers, accepted>>

Input ==
    \E f \in Fields : \E v \in ValuesOf(f) :
        /\ Has(f)
        /\ v # value[f]
        /\ edits < MaxEdits
        /\ edits' = edits + 1
        /\ value' = [value EXCEPT ![f] = v]
        /\ border' = IF Listening(f) THEN [border EXCEPT ![f] = ""] ELSE border
        /\ errText' = IF Listening(f) /\ Has(ErrorIdOf(f))
                      THEN [errText EXCEPT ![ErrorIdOf(f)] = ""] ELSE errText
        /\ log' = <<E("input")>>
        /\ UNCHANGED <<pageVars, countVars, filterVars, navVars, revealVars,feedback, btn, inflight, timers, accepted>>

NextForm == Submit \/ FetchSettle \/ Advance \/ OpenWhatsApp \/ ReenableSubmit \/ Input

\* --------------------------------------------- 3. handleNavbarScroll()
\* updateNavbar(): the navbar--scrolled class after the call
updateNavbarAtThreshold(y) == y >= NAVBAR_SCROLL_THRESHOLD
updateNavbar(y) == y > NAVBAR_SCROLL_THRESHOLD

\* the listener exists only if #navbar does: `if (!navbar) return;`
ScrollActive == Has("navbar")

\* the user (or a script) moves the page; the browser owes a scroll event
ScrollTo ==
    \E y \in Offsets :
        /\ y # scrollY
        /\ scrollY' = y
        /\ scrollEvent' = TRUE
        /\ lastNav' = [ev |-> "scrollTo", wasOpen |-> menu.menuOpen]
        /\ UNCHANGED <<navScrolled, scrollTimer, pendingTimers, burst, menu, pageVars, countVars, filterVars, formVars, revealVars>>

\* clearTimeout(timer): the timeout the handle names is dropped if it is
\* still pending; n is the number of timeouts pending
clearTimeoutSkipped(n, t) == n
clearTimeout(n, t) == IF t # NoTimer THEN n - 1 ELSE n

\* the scroll event is dispatched to debounce(updateNavbar, 10):
\* clearTimeout(timer); timer = setTimeout(..., delay)
ScrollListener ==
    /\ scrollEvent
    /\ scrollEvent' = FALSE
    /\ scrollTimer' = IF ScrollActive THEN DEBOUNCE_DELAY ELSE scrollTimer
    /\ pendingTimers' = IF ScrollActive THEN clearTimeout(pendingTimers, scrollTimer) + 1
                        ELSE pendingTimers
    /\ burst' = IF ScrollActive THEN Min(burst + 1, MaxBurst) ELSE burst
    /\ lastNav' = [ev |-> "scroll", wasOpen |-> menu.menuOpen]
    /\ UNCHANGED <<scrollY, navScrolled, menu, pageVars, countVars, filterVars, formVars, revealVars>>

\* time passes while the debounce timer is pending
ScrollTick ==
    /\ scrollTimer > 0
    /\ scrollTimer' = scrollTimer - Min(NavQuantum, scrollTimer)
    /\ lastNav' = [ev |-> "tick", wasOpen |-> menu.menuOpen]
    /\ UNCHANGED <<scrollY, scrollEvent, navScrolled, pendingTimers, burst, menu, pageVars, countVars, filterVars, formVars, revealVars>>

\* the debounce timer fires: fn.apply(this, args), i.e. updateNavbar()
DebounceFire ==
    /\ scrollTimer = 0
    /\ scrollTimer' = NoTimer
    /\ navScrolled' = updateNavbar(scrollY)
    /\ pendingTimers' = pendingTimers - 1
    /\ burst' = 0
    /\ lastNav' = [ev |-> "debounce", wasOpen |-> menu.menuOpen]
    /\ UNCHANGED <<scrollY, scrollEvent, menu, pageVars, countVars, filterVars, formVars, revealVars>>

\* ------------------------------------------------- 4. initMobileMenu()
MenuActive == Has("navToggle") /\ Has("mobileMenu")

openMenuClassesOnly(m) ==
    [menuOpen |-> TRUE, toggleOpen |-> TRUE, ariaExpanded |-> m.ariaExpanded,
     ariaHidden |-> m.ariaHidden]
openMenu(m) ==
    [menuOpen |-> TRUE, toggleOpen |-> TRUE, ariaExpanded |-> "true", ariaHidden |-> "false"]

closeMenu(m) ==
    [menuOpen |-> FALSE, toggleOpen |-> FALSE, ariaExpanded |-> "false", ariaHidden |-> "true"]

toggleMenuCloseOnly(m) == closeMenu(m)
toggleMenu(m) == IF m.menuOpen THEN closeMenu(m) ELSE openMenu(m)

\* keydown listener of the document
onKeydown(m, key) == IF key = "Escape" /\ m.menuOpen THEN closeMenu(m) ELSE m

\* click listener of the document; target is the element clicked
onDocumentClickAnywhere(m, target) ==
    IF Has("navbar") /\ m.menuOpen THEN closeMenu(m) ELSE m
onDocumentClick(m, target) ==
    IF Has("navbar") /\ target \notin inNavbar /\ m.menuOpen THEN closeMenu(m) ELSE m

\* a click on the hamburger: its own listener, then the document's (bubbling)
ClickToggle ==
    /\ Has("navToggle")
    /\ menu' = IF MenuActive THEN onDocumentClick(toggleMenu(menu), "navToggle") ELSE menu
    /\ lastNav' = [ev |-> "toggle", wasOpen |-> menu.menuOpen]
    /\ UNCHANGED <<pageVars, countVars, filterVars, scrollVars, formVars, revealVars>>

\* a click on a .mobile-nav-link of the panel, then the document's listener
ClickNavLink ==
    /\ Has("mobileMenu")
    /\ menu' = IF MenuActive THEN onDocumentClick(closeMenu(menu), "mobileMenu") ELSE menu
    /\ lastNav' = [ev |-> "link", wasOpen |-> menu.menuOpen]
    /\ UNCHANGED <<pageVars, countVars, filterVars, scrollVars, formVars, revealVars>>

\* a key is pressed anywhere in the document
Keydown ==
    \E key \in {"Escape", "Enter"} :
        /\ menu' = IF MenuActive THEN onKeydown(menu, key) ELSE menu
        /\ lastNav' = [ev |-> key, wasOpen |-> menu.menuOpen]
        /\ UNCHANGED <<pageVars, countVars, filterVars, scrollVars, formVars, revealVars>>

\* a click on the page content, outside the navbar and the menu elements
ClickOutside ==
    /\ menu' = IF MenuActive THEN onDocumentClick(menu, "page") ELSE menu
    /\ lastNav' = [ev |-> "outside", wasOpen |-> menu.menuOpen]
    /\ UNCHANGED <<pageVars, countVars, filterVars, scrollVars, formVars, revealVars>>

NextNav == ScrollTo \/ ScrollListener \/ ScrollTick \/ DebounceFire
             \/ ClickToggle \/ ClickNavLink \/ Keydown \/ ClickOutside

\* ---------------------- 6. animateCounters()  7. initScrollAnimations()
\* The IntersectionObserver of the platform: each rendering update compares an
\* observed target with its previous state and queues an entry on a change;
\* the callback is a task of its own and receives every entry queued since
\* the last delivery, in order.

\* `if (!counters.length) return;` / `if (!elements.length) return;`
CountersPresent == Counters \cap dom
FadesPresent == Fades \cap dom

\* one rendering update sees target el (not) intersecting at its threshold
Intersect ==
    \E el \in observed : \E b \in BOOLEAN :
        /\ prevInter[el] # (IF b THEN "in" ELSE "out")
        /\ Len(queue[ObserverOf(el)]) < MaxQueue
        /\ prevInter' = [prevInter EXCEPT ![el] = IF b THEN "in" ELSE "out"]
        /\ queue' = [queue EXCEPT ![ObserverOf(el)] =
                        Append(@, [target |-> el, isIntersecting |-> b])]
        /\ UNCHANGED <<observed, started, scheduled, fadeIn, visible, fadeTimers,
                       pageVars, countVars, filterVars, formVars, navVars>>

\* --- countUp(el): the closure, and step(timestamp)
\* Timestamps are counted in units of 100 ms, so that the fourth powers of
\* the easing stay small; the duration is 20 units.
Duration == COUNTER_DURATION_MS \div 100

\* countUp(el) up to its requestAnimationFrame(step): startTime = null.
\* `first` records the timestamp of the first frame the closure receives.
countUp(el) == [el |-> el, startTime |-> NoStart, first |-> NoFrame, done |-> FALSE]

\* requestAnimationFrame(step) of closure i
requestAnimationFrameTwice(q, i) == q \o <<i, i>>
requestAnimationFrame(q, i) == Append(q, i)

\* `if (!startTime) startTime = timestamp;`  null and 0 are both falsy
StartTime(a, timestamp) ==
    IF a.startTime = NoStart \/ a.startTime = 0 THEN timestamp ELSE a.startTime

Pow4(x) == x * x * x * x
\* Math.round(x) of x = n / d, d > 0, n >= 0: floor(x + 1/2)
MathRound(n, d) == (2 * n + d) \div (2 * d)

\* Math.round(eased * target), eased = 1 - (1 - progress)^4,
\* progress = Math.min(elapsed / duration, 1)
EasedValue(elapsed, target) ==
    IF elapsed >= Duration THEN target
    ELSE MathRound(target * (Pow4(Duration) - Pow4(Duration - elapsed)), Pow4(Duration))

\* step(timestamp) of closure i, on the state st = [anims, shown, raf]
step(st, i, timestamp) ==
    LET a == st.anims[i]
        startTime == StartTime(a, timestamp)
        elapsed == timestamp - startTime
        more == elapsed < Duration
    IN  [anims |-> [st.anims EXCEPT ![i] =
                        [el |-> a.el, startTime |-> startTime,
                         first |-> IF a.first = NoFrame THEN timestamp ELSE a.first,
                         done |-> ~more]],
         shown |-> [st.shown EXCEPT ![a.el] =
                        IF more THEN EasedValue(elapsed, dataTarget[a.el])
                        ELSE dataTarget[a.el]],
         raf   |-> IF more THEN requestAnimationFrame(st.raf, i) ELSE st.raf]

\* one animation frame runs the callbacks requested before it, in order
RECURSIVE RunFrame(_, _, _)
RunFrame(st, callbacks, timestamp) ==
    IF callbacks = <<>> THEN st
    ELSE RunFrame(step(st, Head(callbacks), timestamp), Tail(callbacks), timestamp)

\* timestamps of the first frame of a page, and gaps between frames
FirstFrameTimes == {0, 3}
FrameGaps == {1, 7, 20}

\* the browser delivers an animation frame while callbacks are requested
Frame ==
    /\ raf # <<>>
    /\ \E timestamp \in IF frameTime = NoFrame THEN FirstFrameTimes
                         ELSE {frameTime + g : g \in FrameGaps} :
        /\ timestamp <= MaxTick
        /\ LET r == RunFrame([anims |-> anims, shown |-> shown, raf |-> <<>>],
                              raf, timestamp)
           IN  /\ anims' = r.anims
               /\ shown' = r.shown
               /\ raf' = r.raf
        /\ frameTime' = timestamp
    /\ UNCHANGED <<dataTarget, pageVars, filterVars, formVars, navVars, revealVars>>

\* entries.forEach(entry => { if (entry.isIntersecting) { countUp(entry.target);
\* observer.unobserve(entry.target); } }) of the counter observer
RECURSIVE CounterCallback(_, _)
CounterCallback(st, entries) ==
    IF entries = <<>> THEN st
    ELSE LET entry == Head(entries)
             nx == IF entry.isIntersecting
                   THEN [started  |-> [st.started EXCEPT ![entry.target] = @ + 1],
                         anims    |-> Append(st.anims, countUp(entry.target)),
                         raf      |-> requestAnimationFrame(st.raf, Len(st.anims) + 1),
                         observed |-> st.observed \ {entry.target}]
                   ELSE st
         IN  CounterCallback(nx, Tail(entries))

\* the same loop of the fade observer: setTimeout(..., 80), then unobserve
RECURSIVE FadeCallback(_, _)
FadeCallback(st, entries) ==
    IF entries = <<>> THEN st
    ELSE LET entry == Head(entries)
             nx == IF entry.isIntersecting
                   THEN [scheduled  |-> [st.scheduled EXCEPT ![entry.target] = @ + 1],
                         fadeTimers |-> Append(st.fadeTimers,
                                               [target |-> entry.target, rem |-> FADE_DELAY, age |-> 0]),
                         observed   |-> st.observed \ {entry.target}]
                   ELSE st
         IN  FadeCallback(nx, Tail(entries))

\* the notification task of the counter observer
DeliverCounters ==
    /\ queue["counters"] # <<>>
    /\ LET r == CounterCallback([started |-> started, observed |-> observed,
                                 anims |-> anims, raf |-> raf], queue["counters"])
       IN  /\ started' = r.started
           /\ observed' = r.observed
           /\ anims' = r.anims
           /\ raf' = r.raf
    /\ queue' = [queue EXCEPT !["counters"] = <<>>]
    /\ UNCHANGED <<prevInter, scheduled, fadeIn, visible, fadeTimers,
                   dataTarget, shown, frameTime, pageVars, filterVars, formVars, navVars>>

\* the notification task of the fade observer
DeliverFades ==
    /\ queue["fades"] # <<>>
    /\ LET r == FadeCallback([scheduled |-> scheduled, fadeTimers |-> fadeTimers,
                              observed |-> observed], queue["fades"])
       IN  /\ scheduled' = r.scheduled
           /\ fadeTimers' = r.fadeTimers
           /\ observed' = r.observed
    /\ queue' = [queue EXCEPT !["fades"] = <<>>]
    /\ UNCHANGED <<prevInter, started, fadeIn, visible, pageVars, countVars, filterVars, formVars, navVars>>

\* time passes while fade timers are pending
FadeTick ==
    /\ fadeTimers # <<>>
    /\ MinRem(fadeTimers) > 0
    /\ LET d == Min(FadeQuantum, MinRem(fadeTimers))
       IN  fadeTimers' = [i \in 1..Len(fadeTimers) |-> [fadeTimers[i] EXCEPT !.rem = @ - d, !.age = @ + d]]
    /\ UNCHANGED <<observed, prevInter, queue, started, scheduled, fadeIn, visible,
                   pageVars, countVars, filterVars, formVars, navVars>>

\* setTimeout(() => entry.target.classList.add('is-visible'), 80) runs; the
\* timers all have the same delay, so they run in the order they were set
FadeTimerFireEarly ==
    /\ fadeTimers # <<>>
    /\ visible' = visible \cup {Head(fadeTimers).target}
    /\ fadeTimers' = Tail(fadeTimers)
    /\ UNCHANGED <<observed, prevInter, queue, started, scheduled, fadeIn,
                   pageVars, countVars, filterVars, formVars, navVars>>
FadeTimerFire ==
    /\ fadeTimers # <<>>
    /\ Head(fadeTimers).rem = 0
    /\ visible' = visible \cup {Head(fadeTimers).target}
    /\ fadeTimers' = Tail(fadeTimers)
    /\ UNCHANGED <<observed, prevInter, queue, started, scheduled, fadeIn,
                   pageVars, countVars, filterVars, formVars, navVars>>

\* the counters alone, with their animation frames
NextCount == Intersect \/ DeliverCounters \/ Frame

NextReveal == Intersect \/ DeliverCounters \/ DeliverFades \/ FadeTick \/ FadeTimerFire

\* -------------------------------------------- 8. initPortfolioFilter()
TabsPresent == TabIds \cap dom
ItemsPresent == ItemIds \cap dom
\* `if (!tabs.length || !items.length) return;`
FilterActive == TabsPresent # {} /\ ItemsPresent # {}

\* tabs.forEach(t => { remove active; aria-selected = 'false' }); then the
\* clicked tab gets active and aria-selected = 'true'
SelectTab(ts, tab) ==
    [t \in TabIds |->
        IF t = tab THEN [active |-> TRUE, ariaSelected |-> "true"]
        ELSE IF t \in TabsPresent THEN [active |-> FALSE, ariaSelected |-> "false"]
        ELSE ts[t]]

\* items.forEach(item => filter === 'all' || category === filter
\*                        ? remove hidden : add hidden)
FilterItemsHideOnly(h, filter) ==
    h \cup {item \in ItemsPresent : ~(filter = "all" \/ DataCategory(item) = filter)}
FilterItems(h, filter) ==
    (h \ ItemsPresent)
        \cup {item \in ItemsPresent : ~(filter = "all" \/ DataCategory(item) = filter)}

\* click on a .portfolio-tab
ClickTab ==
    \E tab \in TabsPresent :
        /\ tabs' = IF FilterActive THEN SelectTab(tabs, tab) ELSE tabs
        /\ hidden' = IF FilterActive THEN FilterItems(hidden, DataFilter(tab)) ELSE hidden
        /\ lastTab' = tab
        /\ UNCHANGED <<pageVars, countVars, formVars, navVars, revealVars>>

NextFilter == ClickTab

\* ------------------------------------------------------------ page loads
\* the navigation markup: elements may be missing, and the toggle and the
\* panel may or may not lie inside #navbar
NavDoms == {FullDom \ gone : gone \in SUBSET NavDom}
Containments == {{"navbar"} \cup inside : inside \in SUBSET {"navToggle", "mobileMenu"}}

\* the menu as the markup ships it: closed, the ARIA attributes set or not
MarkupMenus ==
    {[menuOpen |-> FALSE, toggleOpen |-> FALSE, ariaExpanded |-> x, ariaHidden |-> h] :
        x \in {"unset", "false"}, h \in {"unset", "true"}}

\* handleNavbarScroll() has run updateNavbar() once; initMobileMenu() has
\* only attached listeners
InitNav ==
    /\ scrollY \in Offsets
    /\ scrollEvent = FALSE
    /\ scrollTimer = NoTimer
    /\ navScrolled = (ScrollActive /\ updateNavbar(scrollY))
    /\ pendingTimers = 0
    /\ burst = 0
    /\ menu \in MarkupMenus
    /\ lastNav = [ev |-> "load", wasOpen |-> FALSE]

NavIdle ==
    /\ scrollY = 0
    /\ scrollEvent = FALSE
    /\ scrollTimer = NoTimer
    /\ navScrolled = FALSE
    /\ pendingTimers = 0
    /\ burst = 0
    /\ menu = [menuOpen |-> FALSE, toggleOpen |-> FALSE, ariaExpanded |-> "false",
               ariaHidden |-> "true"]
    /\ lastNav = [ev |-> "load", wasOpen |-> FALSE]

\* animateCounters() and initScrollAnimations() have run: every fade element
\* carries fade-in, every target is observed, nothing is queued yet
InitReveal ==
    /\ observed = CountersPresent \cup FadesPresent
    /\ prevInter = [el \in Counters \cup Fades |-> "none"]
    /\ queue = [o \in {"counters", "fades"} |-> <<>>]
    /\ started = [el \in Counters |-> 0]
    /\ scheduled = [el \in Fades |-> 0]
    /\ fadeIn = FadesPresent
    /\ visible = {}
    /\ fadeTimers = <<>>

\* data-target values of the counters
Targets == {0, 1, 7, 150}

\* animateCounters() has run: no countUp() yet; the counters show the 0 of
\* the markup
InitCount ==
    /\ dataTarget \in [Counters -> Targets]
    /\ anims = <<>>
    /\ raf = <<>>
    /\ shown = [el \in Counters |-> 0]
    /\ frameTime = NoFrame
CountIdle ==
    /\ dataTarget = [el \in Counters |-> 150]
    /\ anims = <<>>
    /\ raf = <<>>
    /\ shown = [el \in Counters |-> 0]
    /\ frameTime = NoFrame

\* the portfolio as the markup ships it
TabMarkups == {[active |-> TRUE, ariaSelected |-> "true"],
               [active |-> FALSE, ariaSelected |-> "false"],
               [active |-> FALSE, ariaSelected |-> "unset"]}
InitFilter ==
    /\ tabs \in [TabIds -> TabMarkups]
    /\ hidden \in SUBSET ItemIds
    /\ lastTab = "none"
FilterIdle ==
    /\ tabs = [t \in TabIds |-> [active |-> t = "tabAll",
                                 ariaSelected |-> IF t = "tabAll" THEN "true" ELSE "false"]]
    /\ hidden = {}
    /\ lastTab = "none"

PageIdle == dom = FullDom /\ inNavbar = NavDom /\ CountIdle /\ FilterIdle

\* the contact form of the full page, with or without an endpoint
Init == PageIdle /\ InitForm /\ NavIdle /\ InitReveal
Next == NextForm
Spec == Init /\ [][Next]_vars

\* the contact form on pages lacking one of the elements it looks up
FormDroppable == {"contactForm", "formFeedback", "submitBtn", "clientPhone",
                  "areaError", "clientMessage"}
FormDoms == {FullDom} \cup {FullDom \ {e} : e \in FormDroppable}
InitPartialPage ==
    /\ dom \in FormDoms
    /\ inNavbar = NavDom
    /\ CountIdle /\ FilterIdle
    /\ InitForm /\ NavIdle /\ InitReveal
SpecPartial == InitPartialPage /\ [][Next]_vars

\* the remote call settles and every pending timer runs
FairSpec ==
    /\ Spec
    /\ WF_vars(FetchSettle)
    /\ WF_vars(Advance)
    /\ WF_vars(OpenWhatsApp)
    /\ WF_vars(ReenableSubmit)

\* the navbar and the mobile menu, over the navigation markups
InitNavPage ==
    /\ dom \in NavDoms
    /\ inNavbar \in Containments
    /\ endpoint = FALSE
    /\ InitFormFields
    /\ InitNav
    /\ InitReveal
    /\ CountIdle
    /\ FilterIdle
SpecNav == InitNavPage /\ [][NextNav]_vars

\* the reveal observers, over the pages with and without reveal targets
InitRevealPage ==
    /\ dom \in {FullDom \ gone : gone \in SUBSET (Counters \cup Fades)}
    /\ inNavbar = NavDom
    /\ endpoint = FALSE
    /\ InitFormFields
    /\ NavIdle
    /\ InitReveal
    /\ CountIdle
    /\ FilterIdle
SpecReveal == InitRevealPage /\ [][NextReveal]_vars
\* queued entries are delivered and pending timers run
FairSpecReveal ==
    /\ SpecReveal
    /\ WF_vars(DeliverFades)
    /\ WF_vars(FadeTick)
    /\ WF_vars(FadeTimerFire)

\* the portfolio, over its markups and the pages lacking tabs or items
FilterDoms == {FullDom, FullDom \ ItemIds, FullDom \ {"item1"}, FullDom \ {"tabSolar"},
               FullDom \ {"tabAll", "tabSolar"}}
InitFilterPage ==
    /\ dom \in FilterDoms
    /\ inNavbar = NavDom
    /\ endpoint = FALSE
    /\ InitFormFields
    /\ NavIdle
    /\ InitReveal
    /\ CountIdle
    /\ InitFilter
SpecFilter == InitFilterPage /\ [][NextFilter]_vars

\* one counter and its animation, over the data-target values
InitCountPage ==
    /\ dom = FullDom \ ({"counter2"} \cup Fades)
    /\ inNavbar = NavDom
    /\ endpoint = FALSE
    /\ InitFormFields
    /\ NavIdle
    /\ InitReveal
    /\ InitCount
    /\ dataTarget["counter2"] = 0
    /\ FilterIdle
SpecCount == InitCountPage /\ [][NextCount]_vars
\* animation frames keep being delivered, and so are the observer's entries
FairSpecCount == SpecCount /\ WF_vars(Frame) /\ WF_vars(DeliverCounters)

\* ======================================================================
\* Properties
\* ======================================================================
Op(l, i) == IF i \in 1..Len(l) THEN l[i].op ELSE ""
Ops(l) == {l[i].op : i \in 1..Len(l)}
\* the place of effect op in l, 0 if it is not there
Place(l, op) == IF op \in Ops(l) THEN CHOOSE i \in 1..Len(l) : l[i].op = op ELSE 0
\* empty after trimming
Blank(s) == \A i \in 1..Len(s) : s[i] \in {" ", "\n"}
SubmitStep == Op(log', 1) = "submit"
AcceptedStep == SubmitStep /\ Op(log', 2) = "validateForm:true"

\* C1: a submit with a required field empty after trimming issues no remote
\* call, schedules and opens no deep link, leaves the submit control alone,
\* and marks exactly the empty fields: each empty field gets its message and
\* the invalid border, each other field has both cleared (all four are
\* evaluated, whatever the first failure).
C1_Step ==
    (SubmitStep /\ \E f \in Required : Blank(value[f])) =>
        /\ inflight' = inflight
        /\ timers' = timers
        /\ btn' = btn
        /\ Ops(log') \cap {"fetch", "setTimeout:wa", "setTimeout:reenable", "open",
                           "open:blocked", "disable"} = {}
        /\ \A f \in Required :
            /\ errText'[ErrorIdOf(f)] = IF Blank(value[f]) THEN ErrorMessageOf(f) ELSE ""
            /\ border'[f] = IF Blank(value[f]) THEN "#FF5555" ELSE ""
C1_EmptyFieldBlocksSubmit == [][C1_Step]_vars

\* a rejected submit: the name empty, the phone blank, the service chosen, the
\* area empty, after an earlier submission was accepted and re-enabled
C1_Witness ==
    /\ Op(log, 2) = "validateForm:false"
    /\ value["clientName"] = <<>> /\ errText["nameError"] = ErrorMessageOf("clientName")
    /\ value["clientPhone"] = <<SP>> /\ errText["phoneError"] = ErrorMessageOf("clientPhone")
    /\ value["serviceType"] = <<"solar">> /\ errText["serviceError"] = ""
    /\ value["clientArea"] = <<>> /\ border["clientArea"] = INVALID_BORDER
    /\ ~btn.disabled /\ inflight = 0 /\ timers = <<>>

\* C2: an accepted submit disables the control and shows the pending label
\* before the remote call or the deep-link synthesis; the control stays
\* disabled, with that label, while a remote call is in flight; at most one
\* remote call is in flight.
C2_Step ==
    /\ AcceptedStep =>
        /\ btn'.disabled /\ btn'.label = SENDING_LABEL
        /\ Place(log', "disable") > 0
        /\ \A op \in {"fetch", "showFeedback", "setTimeout:wa"} :
               op \in Ops(log') => Place(log', "disable") < Place(log', op)
    /\ inflight' > 0 => btn'.disabled /\ btn'.label = SENDING_LABEL
    /\ inflight' <= 1
C2_NoDuplicateSubmission == [][C2_Step]_vars

\* the second accepted submission is in flight, the control disabled
C2_Witness ==
    /\ inflight = 1 /\ accepted = 2
    /\ btn.disabled /\ btn.label = SENDING_LABEL
    /\ Op(log, 4) = "fetch"

WaTimer == [kind |-> "wa", delay |-> WA_REDIRECT_DELAY, rem |-> WA_REDIRECT_DELAY, url |-> WaUrl]
ReenableTimer == [kind |-> "reenable", delay |-> REENABLE_DELAY, rem |-> REENABLE_DELAY, url |-> <<>>]
WaSuccessNotice == [text |-> WA_NOTICE, cls |-> "success"]
OpsSeq(l) == [i \in 1..Len(l) |-> l[i].op]
TimerStep(kind) == Op(log', 1) = "timer:" \o kind
FetchFailedStep == Op(log', 1) \in {"fetch:status", "fetch:throw"}

\* C3: with no endpoint an accepted submit issues no remote call and runs in
\* this order: control disabled, success-style notice shown, deep link opened
\* (1500 ms after the submit), control re-enabled (3000 ms after it); the
\* re-enable timer stays pending whether the window opened or was blocked.
C3_Step ==
    ~endpoint =>
        /\ inflight' = 0 /\ "fetch" \notin Ops(log')
        /\ AcceptedStep =>
            /\ OpsSeq(log') = <<"submit", "validateForm:true", "disable", "showFeedback",
                                "setTimeout:wa", "setTimeout:reenable">>
            /\ btn'.disabled
            /\ feedback' = WaSuccessNotice
            /\ timers' = timers \o <<WaTimer, ReenableTimer>>
        /\ TimerStep("wa") =>
            /\ btn.disabled /\ btn'.disabled
            /\ feedback = WaSuccessNotice
            /\ Op(log', 2) \in {"open", "open:blocked"}
            /\ \E j \in 1..Len(timers') :
                   /\ timers'[j].kind = "reenable"
                   /\ timers'[j].rem = REENABLE_DELAY - WA_REDIRECT_DELAY
        /\ TimerStep("reenable") =>
            /\ btn.disabled /\ ~btn'.disabled /\ btn'.label = SEND_LABEL
            /\ \A j \in 1..Len(timers) : timers[j].kind # "wa"
C3_NoEndpointOrder == [][C3_Step]_vars

\* the no-endpoint submission has run to its end: link opened, control back
C3_Witness ==
    /\ ~endpoint /\ accepted = 1 /\ inflight = 0
    /\ Op(log, 1) = "timer:reenable"
    /\ ~btn.disabled /\ btn.label = SEND_LABEL
    /\ feedback = WaSuccessNotice
    /\ timers = <<>>

\* C4 (as amended): with an endpoint, a failure status or a thrown error runs
\* the fallback as in the no-endpoint scenario - the same success-style
\* notice, exactly one deep link with the same composed text scheduled and
\* opened once, no error notice, no retry - and the control is re-enabled in
\* the same handler run, after the link is scheduled and before it opens.
C4_Step ==
    /\ (endpoint /\ FetchFailedStep) =>
        /\ feedback' = WaSuccessNotice
        /\ timers' = Append(timers, WaTimer)
        /\ inflight' = inflight - 1 /\ "fetch" \notin Ops(log')
        /\ ~btn'.disabled /\ btn'.label = SEND_LABEL
        /\ OpsSeq(log') = <<Op(log', 1), "showFeedback", "setTimeout:wa", "enable">>
    /\ (endpoint /\ TimerStep("wa")) =>
        /\ Len(timers') = Len(timers) - 1
        /\ Len(log') = 2 /\ Op(log', 2) \in {"open", "open:blocked"}
        /\ inflight' = inflight
C5_Step ==
    (endpoint /\ Op(log', 1) = "fetch:ok") =>
        /\ value' = [f \in Fields |-> <<>>]
        /\ feedback' = [text |-> SENT_NOTICE, cls |-> "success"]
        /\ timers' = timers
        /\ Ops(log') \cap {"setTimeout:wa", "open", "open:blocked"} = {}
C5_RemoteSuccess == [][C5_Step]_vars

\* the call succeeded: fields empty, notice shown, nothing scheduled
C5_Witness ==
    /\ endpoint /\ Op(log, 1) = "fetch:ok" /\ accepted = 1
    /\ value = [f \in Fields |-> <<>>]
    /\ feedback.text = SENT_NOTICE
    /\ timers = <<>>

\* C6: a disabled submit control is eventually re-enabled with its label
\* restored, whatever the outcome (remote success, failure status, thrown
\* error, no endpoint), once the call settles and the timers run.
C6_EventuallyReenabled == btn.disabled ~> (~btn.disabled /\ btn.label = SEND_LABEL)

\* both submissions are over and the control is enabled with the label
C6_Witness ==
    /\ accepted = MaxSubmits /\ inflight = 0
    /\ \A j \in 1..Len(timers) : timers[j].kind # "reenable"
    /\ ~btn.disabled /\ btn.label = SEND_LABEL

\* decodeURIComponent, token by token
DecodeToken(tok) ==
    CASE tok = "%20" -> " "
      [] tok = "%0A" -> "\n"
      [] tok = "%3A" -> ":"
      [] tok = "%2F" -> "/"
      [] tok = "%7B" -> "{"
      [] tok = "%7D" -> "}"
      [] tok = "%5B" -> "["
      [] tok = "%5D" -> "]"
      [] OTHER       -> tok
\* the text a deep link carries
LinkText(url) ==
    LET q == SubSeq(url, Len(WA_PREFIX) + 1, Len(url))
    IN  [i \in 1..Len(q) |-> DecodeToken(q[i])]
Contains(s, sub) ==
    \E i \in 0..(Len(s) - Len(sub)) : SubSeq(s, i + 1, i + Len(sub)) = sub
\* the label the claim gives a service code: its entry, else the code itself
ClaimedLabel(service) ==
    IF Len(service) = 1 /\ service[1] \in ServiceCodes
    THEN OwnServiceLabel(service[1]) ELSE service
ClaimedText ==
    GREETING
      \o <<NL, "Service", ":", SP>> \o ClaimedLabel(value["serviceType"])
      \o <<NL, "Area", ":", SP>> \o Trim(value["clientArea"])
      \o <<NL, "Name", ":", SP>> \o Trim(value["clientName"])
      \o <<NL, "Phone", ":", SP>> \o Trim(value["clientPhone"])
      \o (IF ~Blank(value["clientMessage"])
          THEN <<NL, "Details", ":", SP>> \o Trim(value["clientMessage"]) ELSE <<>>)
JohnExample ==
    /\ value["clientName"] = <<"John">>
    /\ value["clientPhone"] = <<"0771234567">>
    /\ value["serviceType"] = <<"solar">>
    /\ value["clientArea"] = <<"Harare">>

\* C7: the text of every deep link the fallback composes is the greeting
\* followed by 'Service: <label>', 'Area: <area>', 'Name: <name>',
\* 'Phone: <phone>' in that order, <label> being the lookup of the service
\* code and the raw code when the lookup has no entry for it, with a
\* 'Details:' line iff the message is not blank; the notice is shown before
\* the link is scheduled; the John example gives the four lines of the spec.
C7_Step ==
    "setTimeout:wa" \in Ops(log') =>
        LET text == LinkText(timers'[Len(timers) + 1].url)
        IN  /\ text = ClaimedText
            /\ 0 < Place(log', "showFeedback")
            /\ Place(log', "showFeedback") < Place(log', "setTimeout:wa")
            /\ JohnExample =>
                /\ Contains(text, <<"Service", ":", SP, "Solar", SP, "Installation">>)
                /\ Contains(text, <<"Area", ":", SP, "Harare">>)
                /\ Contains(text, <<"Name", ":", SP, "John">>)
                /\ Contains(text, <<"Phone", ":", SP, "0771234567">>)
C7_ComposedText == [][C7_Step]_vars

\* ------------------------------------------------------------ navigation
MenuEvents == {"toggle", "link", "Escape", "outside"}

\* C8 (as stated): the menu is open or closed, closed at first, and each of
\* toggle click, nav-link click, cancel key and outside click takes an open
\* menu to closed and leaves a closed menu closed.  Read on the markup the
\* page is written for: navbar, toggle and panel present, both inside the
\* navbar.
C8_OriginalStep ==
    (MenuActive /\ Has("navbar") /\ inNavbar = NavDom /\ lastNav'.ev \in MenuEvents)
        => ~menu'.menuOpen
C8_Original == ~menu.menuOpen /\ [][C8_OriginalStep]_vars

\* C8 (amended): the menu is open or closed, closed at first, panel and
\* toggle carrying is-open together.  A toggle click flips the state, except
\* that a toggle lying outside an existing navbar leaves the menu closed;
\* nav-link click and cancel key take open to closed; an outside click takes
\* open to closed when the navbar exists; each of these three leaves a closed
\* menu closed; nothing else changes the state, and without toggle or panel
\* nothing changes it at all.
C8_Step ==
    LET ev == lastNav'.ev
        wasOpen == menu.menuOpen
        isOpen == menu'.menuOpen
    IN  /\ MenuActive =>
            /\ ev = "toggle" =>
                   isOpen = IF Has("navbar") /\ "navToggle" \notin inNavbar
                            THEN FALSE ELSE ~wasOpen
            /\ ev \in {"link", "Escape"} => ~isOpen
            /\ ev = "outside" => isOpen = (wasOpen /\ ~Has("navbar"))
            /\ ev \notin MenuEvents => isOpen = wasOpen
        /\ ~MenuActive => menu' = menu
        /\ menu'.toggleOpen = menu'.menuOpen
C8_MenuStates == ~menu.menuOpen /\ [][C8_Step]_vars
\* a toggle click has opened a closed menu
C8_Witness ==
    /\ MenuActive
    /\ lastNav = [ev |-> "toggle", wasOpen |-> FALSE]
    /\ menu.menuOpen

\* C9: with no scroll event owed and no debounce timer pending (scrolling
\* has stopped and the timer has fired, or the page has just loaded), the
\* navbar is scrolled iff the offset is strictly greater than the threshold.
C9_SettledNavbar ==
    (Has("navbar") /\ ~scrollEvent /\ scrollTimer = NoTimer)
        => (navScrolled <=> scrollY > NAVBAR_SCROLL_THRESHOLD)
\* the debounce timer has just fired at offset = threshold: not scrolled
C9_Witness ==
    /\ Has("navbar")
    /\ lastNav.ev = "debounce"
    /\ scrollTimer = NoTimer /\ ~scrollEvent
    /\ scrollY = NAVBAR_SCROLL_THRESHOLD
    /\ ~navScrolled

\* ---------------------------------------------------------------- reveal
\* C10: a counter starts its count-up at most once, and a fade element has
\* its visible state scheduled at most once, whatever the crossings.
C10_AtMostOnce ==
    /\ \A el \in Counters : started[el] <= 1
    /\ \A el \in Fades : scheduled[el] <= 1

\* --------------------------------------------------------------- counters
\* the closures that received the frame of this step
RanInFrame == {raf[k] : k \in 1..Len(raf)}
FrameStep == frameTime' # frameTime
\* closure i is the only countUp() of its element
OnlyAnimation(i) == \A j \in 1..Len(anims) : anims[j].el = anims[i].el => j = i
\* round((1 - (1 - t/D)^4) * T): the integer v with v - 1/2 <= x < v + 1/2
ClaimedValue(t, T) ==
    LET den == Duration * Duration * Duration * Duration
        rest == (Duration - t) * (Duration - t) * (Duration - t) * (Duration - t)
        num == T * (den - rest)
    IN  CHOOSE v \in 0..T : (2 * v - 1) * den <= 2 * num /\ 2 * num < (2 * v + 1) * den

\* C11: on every frame of a counter animation, with t the time elapsed
\* since the first frame it received, the counter shows T when t >= D and
\* round((1 - (1 - t/D)^4) * T) when t < D (0 at t = 0), and never less than
\* it showed before.
C11_Step ==
    FrameStep =>
        \A i \in RanInFrame :
            OnlyAnimation(i) =>
                LET el == anims[i].el
                    T == dataTarget[el]
                    t == frameTime' - anims'[i].first
                IN  /\ shown'[el] = IF t >= Duration THEN T ELSE ClaimedValue(t, T)
                    /\ shown'[el] >= shown[el]
                    /\ t = 0 => shown'[el] = 0
C11_CounterValue == [][C11_Step]_vars

\* the frame requests closure i has pending
Requests(i) == Cardinality({k \in 1..Len(raf) : raf[k] = i})
AnimIds == 1..Len(anims)

\* C15: a started counter animation has exactly one frame request pending
\* until it is done and none afterwards; when it is done the counter shows
\* the exact target; a request leaves the list only by a frame running it;
\* and, frames being delivered with increasing timestamps, every started
\* animation is eventually done.
C15_OneRequest ==
    \A i \in AnimIds :
        /\ Requests(i) = IF anims[i].done THEN 0 ELSE 1
        /\ anims[i].done => shown[anims[i].el] = dataTarget[anims[i].el]
C15_NoCancel ==
    ~FrameStep =>
        /\ Len(raf') >= Len(raf)
        /\ SubSeq(raf', 1, Len(raf)) = raf
        /\ \A i \in AnimIds : anims'[i] = anims[i]
C15_AnimationTerminates ==
    /\ []C15_OneRequest
    /\ [][C15_NoCancel]_vars
    /\ \A i \in 1..2 : (Len(anims) >= i) ~> (Len(anims) >= i /\ anims[i].done /\ raf = <<>>)
\* an animation whose first frame came at timestamp 0 has finished
C15_Witness ==
    /\ Len(anims) >= 1
    /\ anims[1].done
    /\ anims[1].first = 0
    /\ raf = <<>>
    /\ dataTarget["counter1"] = 150
    /\ shown["counter1"] = 150

\* -------------------------------------------------------------- portfolio
\* what a tag shows: everything for 'all', else the items of that category
ShownFor(tag) == {item \in ItemsPresent : tag = "all" \/ DataCategory(item) = tag}

\* C12: once a tab has been selected, the items shown are all of them when
\* the last selected tag is 'all' and otherwise exactly those of that
\* category; the last selected tab, and no other, is active and
\* aria-selected; the state is a function of the last selected tag alone.
C12_FilterState ==
    (FilterActive /\ lastTab # "none") =>
        /\ ItemsPresent \ hidden = ShownFor(DataFilter(lastTab))
        /\ \A t \in TabsPresent :
              /\ tabs[t].active <=> t = lastTab
              /\ tabs[t].ariaSelected = IF t = lastTab THEN "true" ELSE "false"
\* a category tab was selected on a page whose markup hid other items and
\* marked another tab active
C12_Witness ==
    /\ dom = FullDom
    /\ lastTab = "tabSolar"
    /\ hidden = {"item2", "item3"}
    /\ tabs["tabSolar"].active

\* ------------------------------------------------------------------- menu
\* the four indicators of the menu say the same thing
Agree(m) ==
    /\ m.toggleOpen = m.menuOpen
    /\ m.ariaExpanded = (IF m.menuOpen THEN "true" ELSE "false")
    /\ m.ariaHidden = (IF m.menuOpen THEN "false" ELSE "true")

\* C13: every event that runs openMenu() or closeMenu() leaves the four
\* indicators in agreement; a handler that changes any of them leaves them
\* in agreement; and agreement, once reached, is never lost.
C13_Step ==
    /\ (MenuActive /\ lastNav'.ev \in {"toggle", "link"}) => Agree(menu')
    /\ menu' # menu => Agree(menu')
    /\ Agree(menu) => Agree(menu')
C13_IndicatorsAgree == [][C13_Step]_vars
\* the menu is open after a toggle click, and all four indicators say so
C13_Witness ==
    /\ MenuActive
    /\ lastNav.ev = "toggle"
    /\ menu = [menuOpen |-> TRUE, toggleOpen |-> TRUE, ariaExpanded |-> "true",
               ariaHidden |-> "false"]

\* C19: with the toggle inside the navbar, one click on the toggle, handled
\* by the toggle's listener and then by the document's, flips the menu
\* state exactly once: a closed menu is open afterwards, an open one closed.
C19_Step ==
    (MenuActive /\ Has("navbar") /\ "navToggle" \in inNavbar /\ lastNav'.ev = "toggle")
        => menu'.menuOpen = ~menu.menuOpen
C19_ToggleFlipsOnce == [][C19_Step]_vars
\* the menu opened by a toggle click inside the navbar is still open
C19_Witness ==
    /\ MenuActive /\ Has("navbar") /\ "navToggle" \in inNavbar
    /\ lastNav = [ev |-> "toggle", wasOpen |-> FALSE]
    /\ menu.menuOpen /\ menu.toggleOpen

\* --------------------------------------------------------------- debounce
\* C14: the debounced listener has at most one timeout pending, none when
\* no scroll event was dispatched since the handler last ran; a scroll
\* event restarts the full delay and runs no handler; the handler runs only
\* when the full delay has passed since the last event, once for the whole
\* burst, and leaves no timeout pending.
C14_OnePending ==
    /\ pendingTimers <= 1
    /\ pendingTimers = (IF scrollTimer # NoTimer THEN 1 ELSE 0)
    /\ Has("navbar") => (burst > 0 <=> scrollTimer # NoTimer)
C14_Step ==
    /\ (lastNav'.ev = "scroll" /\ Has("navbar")) =>
          /\ scrollTimer' = DEBOUNCE_DELAY
          /\ burst' = IF burst < MaxBurst THEN burst + 1 ELSE MaxBurst
          /\ navScrolled' = navScrolled
    /\ lastNav'.ev = "debounce" =>
          /\ scrollTimer = 0 /\ burst >= 1
          /\ scrollTimer' = NoTimer /\ burst' = 0 /\ pendingTimers' = 0
    /\ lastNav'.ev # "debounce" => navScrolled' = navScrolled
C14_Debounce == []C14_OnePending /\ [][C14_Step]_vars
\* a burst of scroll events, the last one superseding the pending timeout
C14_Witness ==
    /\ Has("navbar")
    /\ lastNav.ev = "scroll"
    /\ burst = MaxBurst
    /\ pendingTimers = 1
    /\ scrollTimer = DEBOUNCE_DELAY

\* ------------------------------------------------------------------ fades
\* an intersecting entry for el waits in the fade observer's queue
Crossed(el) ==
    \E k \in 1..Len(queue["fades"]) :
        queue["fades"][k].target = el /\ queue["fades"][k].isIntersecting

\* C16: an observed fade element carries fade-in; an element becomes
\* visible only when a timer set for it runs, 80 ms after it was set, and
\* never in the step that delivers its crossing; a visible element stays
\* visible; and every delivered crossing is followed by the visible state.
C16_HiddenFirst == (observed \cap Fades) \subseteq fadeIn
C16_Step ==
    /\ visible \subseteq visible'
    /\ fadeIn' = fadeIn
    /\ \A el \in visible' \ visible :
          /\ fadeTimers # <<>>
          /\ Head(fadeTimers).target = el
          /\ Head(fadeTimers).age >= 80
          /\ queue' = queue
C16_OneWayReveal ==
    /\ []C16_HiddenFirst
    /\ [][C16_Step]_vars
    /\ \A el \in Fades : Crossed(el) ~> (el \in visible)
\* a fade element has become visible and left observation
C16_Witness ==
    /\ "fade1" \in visible
    /\ "fade1" \in fadeIn
    /\ "fade1" \notin observed
    /\ scheduled["fade1"] = 1

\* ------------------------------------------------------------ input events
InputStep == Op(log', 1) = "input"
\* the field the input event of this step came from
Edited(f) == value'[f] # value[f]

\* C17: an input event on a required field clears the marker and the
\* message of that field, leaves those of the other three as they were,
\* and leaves the notice, the submit button, the pending call and the
\* timers alone; it never sets a marker or a message.
C17_Step ==
    InputStep =>
        \A f \in Required :
            Edited(f) =>
                /\ border'[f] = ""
                /\ errText'[ErrorIdOf(f)] = ""
                /\ \A g \in Required \ {f} :
                      /\ border'[g] = border[g]
                      /\ errText'[ErrorIdOf(g)] = errText[ErrorIdOf(g)]
                /\ feedback' = feedback
                /\ btn' = btn
                /\ inflight' = inflight
                /\ timers' = timers
                /\ accepted' = accepted
C17_InputClearsOwnField == [][C17_Step]_vars
\* the name was typed after a rejected submit: its marker is gone, the
\* phone's marker and message are still there
C17_Witness ==
    /\ log = <<E("input")>>
    /\ ~Blank(value["clientName"])
    /\ border["clientName"] = "" /\ errText["nameError"] = ""
    /\ border["clientPhone"] = INVALID_BORDER
    /\ errText["phoneError"] = ErrorMessageOf("clientPhone")

\* -------------------------------------------------------- missing elements
\* C18: a submission is not accepted while a required field, or its error
\* slot, is missing from the page; and without the form no call is made and
\* no timer set.
C18_Step ==
    /\ AcceptedStep => \A f \in Required : Has(f) /\ Has(ErrorIdOf(f))
    /\ ~Has("contactForm") => (inflight' = inflight /\ timers' = timers)
C18_MissingElements == [][C18_Step]_vars

\* --------------------------------------------------------- deep link values
\* the line of `label` in the text has nothing after 'label: '
EmptyLine(text, label) ==
    \E i \in 1..Len(text) :
        /\ i + 2 <= Len(text)
        /\ SubSeq(text, i, i + 2) = <<label, ":", SP>>
        /\ (i + 3 > Len(text) \/ text[i + 3] = NL)
OpenStep == Op(log', 1) = "timer:wa"

\* C20: every deep link that is opened carries a non-empty name, phone,
\* service and area.
C20_Step ==
    OpenStep =>
        LET text == LinkText(log'[2].arg)
        IN  \A label \in {"Name", "Phone", "Service", "Area"} : ~EmptyLine(text, label)
C20_LinkCarriesValues == [][C20_Step]_vars

\* ------------------------------------------------------- redirect timers
\* the redirect timers pending
PendingRedirects == {i \in 1..Len(timers) : timers[i].kind = "wa"}

\* C21: at most one redirect timer is pending at any time, and while one
\* is pending the submit button is disabled.
C21_OneRedirectPending ==
    /\ Cardinality(PendingRedirects) <= 1
    /\ PendingRedirects # {} => btn.disabled
\* two redirect timers pending at once
C21_TwoRedirects == Cardinality(PendingRedirects) >= 2
====
